---- MODULE Spec2Model ----
(***************************************************************************)
(* folly/experimental/coro/Promise.h: the completion state machine of a   *)
(* coroutine frame (Promise<T>, Promise<T>::FinalSuspender) and the await  *)
(* dispatch (Promise<T>::await_transform).                                 *)
(*                                                                         *)
(* One producer frame T (the Promise) runs its body and then its final     *)
(* suspend point.  One external actor holds T's handle: it either drops    *)
(* the handle (markDetached) or is a coroutine C that awaits T             *)
(* (registerAwaiter).  C may instead await one of the other awaitable      *)
(* kinds await_transform dispatches on.                                    *)
(*                                                                         *)
(* Threads are identified with the executor whose worker they are.         *)
(* Atomic accesses of state_ are single steps.  The acquire/release        *)
(* pairing is modelled by views: a release store publishes the writer's    *)
(* result cell (relResult) or continuation (relAwaiter) with the state,    *)
(* an acquire load that reads that state makes them visible to the reader. *)
(*                                                                         *)
(* A second run of the same frame (state2, result2, pc2, ...) takes the    *)
(* same steps in the same order but completes its body the other way: with *)
(* an error where the first run returns, with a return where the first run *)
(* throws.  It is what statements comparing the two completions refer to.  *)
(***************************************************************************)
EXTENDS Integers, Sequences, FiniteSets, TLC

\* ---- bounds -------------------------------------------------------------
NumExecutors == 2
NumValues == 2
NumErrors == 2
\* spurious failures of the weak compare-exchange followed in one run
MaxSpurious == 2

\* ---- program constants --------------------------------------------------
\* Executor* executor_{nullptr}
NoExecutor == 0

Executors == 1..NumExecutors
Values == 1..NumValues
Errors == 1..NumErrors

\* enum class PromiseState
PromiseState == {"EMPTY", "DETACHED", "HAS_AWAITER", "HAS_RESULT"}

\* folly::Try<T>: nothing, a value or an exception
EmptyTry == <<"empty", 0>>
ValueTry(v) == <<"value", v>>
\* an exception wrapper that does not carry the current exception
ErrorTry_lost(x) == <<"error", 1>>

ErrorTry(x) == <<"error", x>>

\* The default-constructed result_ member: Try<T>() holds nothing,
\* Try<void>() holds the (only) void value.
InitResult(T) == IF T = "void" THEN ValueTry(0) ELSE EmptyTry

\* the kinds of promise: Promise<T> with T a value type, and Promise<void>
PromiseKinds == {"T", "void"}

\* the external actor on T's handle / what the coroutine C awaits
AwaitKinds == {"peer", "task", "semifuture", "future", "generic", "query"}
Actors == {"detach"} \cup AwaitKinds

\* nothing handed to a completion path yet
NotRecorded == <<"none", 0>>

NullHandle == "null"
ContC == "C"

VARIABLES
  kind,        \* template argument of Promise: "T" or "void"
  state_,      \* Promise::state_
  result_,     \* PromiseBase::result_
  awaiter_,    \* Promise::awaiter_
  executor_,   \* Promise::executor_
  pc,          \* position of T's body / final suspend point
  fstate,      \* the local `state` of FinalSuspender::await_suspend
  fawaiter,    \* awaiter_ as visible to the finalizing thread
  relResult,   \* result cell published by the last release store of state_
  relAwaiter,  \* continuation published by the last release store of state_
  tthread,     \* executor whose worker runs T's body (NoExecutor: none yet)
  actor,       \* what the external actor does
  cexec,       \* C's own bound executor (C's Promise::executor_)
  cpc,         \* position of the external actor / of C
  wrapper,     \* the awaitable await_transform returned to C
  cthread,     \* executor whose worker runs C
  cresult,     \* result cell as visible to C
  observed,    \* what C read from the result cell (or the executor query)
  how,         \* how C got past the await: "none", "sync", "resumed"
  writes,      \* number of writes of result_
  resumes,     \* number of awaiter_.resume() calls
  schedules,   \* number of Executor schedule calls made for C's handoff
  destroys,    \* number of destructions of T's frame
  retpath,     \* which paths of the body recorded a result
  dcheck,      \* TRUE when DCHECK(state != HAS_RESULT) was violated
  casfails,    \* compare-exchange failures caused by a changed state_
  spurious,    \* spurious compare-exchange failures
  nullresume,  \* TRUE when resume() was called on a handle not visible
  path,        \* history: the values state_ has had, in order
  recorded,    \* history: what the body handed to its completion path
  state2,      \* second run: state_
  result2,     \* second run: result_
  pc2,         \* second run: position of the body / final suspend point
  fstate2,     \* second run: the local `state` of await_suspend
  path2,       \* second run: the values state_ has had
  resumes2,    \* second run: number of awaiter_.resume() calls
  diverged     \* TRUE when the second run could not take the first's step

vars == <<kind, state_, result_, awaiter_, executor_, pc, fstate, fawaiter,
          relResult, relAwaiter, tthread, actor, cexec, cpc, wrapper,
          cthread, cresult, observed, how, writes, resumes, schedules,
          destroys, retpath, dcheck, casfails, spurious,
          nullresume, path, recorded, state2, result2, pc2, fstate2,
          path2, resumes2, diverged>>

\* the second run
twin == <<state2, result2, pc2, fstate2, path2, resumes2, diverged>>

tvars == <<kind, state_, result_, awaiter_, executor_, pc, fstate, fawaiter,
           relResult, relAwaiter, tthread, writes, resumes, destroys,
           retpath, dcheck, casfails, spurious, nullresume, path,
           recorded, twin>>

cvars == <<actor, cexec, cpc, wrapper, cthread, cresult, observed, how,
           schedules>>

NoWrapper == [attach |-> "none", via |-> NoExecutor, bound |-> NoExecutor]

\* State after construction of the frame: Promise() {}, state_{EMPTY},
\* awaiter_ default (null), executor_{nullptr}, body suspended at
\* initial_suspend.
Init ==
  /\ kind \in PromiseKinds
  /\ state_ = "EMPTY"
  /\ result_ = InitResult(kind)
  /\ awaiter_ = NullHandle
  /\ executor_ = NoExecutor
  /\ pc = "initial"
  /\ fstate = "EMPTY"
  /\ fawaiter = NullHandle
  /\ relResult = InitResult(kind)
  /\ relAwaiter = NullHandle
  /\ tthread = NoExecutor
  /\ actor \in Actors
  /\ cexec \in Executors
  /\ cpc = "idle"
  /\ wrapper = NoWrapper
  /\ cthread = cexec
  /\ cresult = InitResult(kind)
  /\ observed = EmptyTry
  /\ how = "none"
  /\ writes = 0
  /\ resumes = 0
  /\ schedules = 0
  /\ destroys = 0
  /\ retpath = {}
  /\ dcheck = FALSE
  /\ casfails = 0
  /\ spurious = 0
  /\ nullresume = FALSE
  /\ path = <<"EMPTY">>
  /\ recorded = NotRecorded
  /\ state2 = "EMPTY"
  /\ result2 = InitResult(kind)
  /\ pc2 = "initial"
  /\ fstate2 = "EMPTY"
  /\ path2 = <<"EMPTY">>
  /\ resumes2 = 0
  /\ diverged = FALSE

\* ---- the second run -------------------------------------------------------

\* the second run cannot take the step the first run takes
Diverge2 ==
  /\ diverged' = TRUE
  /\ UNCHANGED <<state2, result2, pc2, fstate2, path2, resumes2>>

\* second run: the owner schedules the frame
scheduleVia2 ==
  IF pc2 = "initial"
    THEN /\ pc2' = "scheduled"
         /\ UNCHANGED <<state2, result2, fstate2, path2, resumes2, diverged>>
    ELSE Diverge2

\* second run: Promise::start()
start2 ==
  IF pc2 = "scheduled"
    THEN /\ pc2' = "running"
         /\ UNCHANGED <<state2, result2, fstate2, path2, resumes2, diverged>>
    ELSE Diverge2

\* second run: the body completes the other way.  Where the first run
\* returns (byError), unhandled_exception records an error; where the first
\* run throws, return_value records a value, or return_void records nothing.
complete2(byError) ==
  IF pc2 = "running"
    THEN /\ pc2' = "body_done"
         /\ IF byError
              THEN \E x \in Errors : result2' = ErrorTry(x)
              ELSE IF kind = "T"
                     THEN \E v \in Values : result2' = ValueTry(v)
                     ELSE result2' = result2
         /\ UNCHANGED <<state2, fstate2, path2, resumes2, diverged>>
    ELSE Diverge2

\* ---- launching the frame ------------------------------------------------

\* The owner binds the executor while the frame is suspended at
\* initial_suspend and schedules start() on it.
scheduleVia(e) ==
  /\ pc = "initial"
  /\ executor_' = e
  /\ pc' = "scheduled"
  /\ UNCHANGED <<kind, path, casfails, spurious,
                 state_, result_, awaiter_, fstate, fawaiter,
                 relResult, relAwaiter, tthread, writes, resumes, destroys,
                 retpath, dcheck, nullresume>>
  /\ UNCHANGED cvars
  /\ UNCHANGED recorded
  /\ scheduleVia2

\* the frame not suspended at initial_suspend: the body starts whether or
\* not the owner has scheduled it
start_eager ==
  /\ pc \in {"initial", "scheduled"}
  /\ pc' = "running"
  /\ tthread' = executor_
  /\ UNCHANGED <<kind, path, casfails, spurious,
                 state_, result_, awaiter_, executor_, fstate,
                 fawaiter, relResult, relAwaiter, writes, resumes, destroys,
                 retpath, dcheck, nullresume>>
  /\ UNCHANGED cvars
  /\ UNCHANGED recorded
  /\ start2

\* Promise::start(): resume the frame from its initial suspend point.
start ==
  /\ pc = "scheduled"
  /\ pc' = "running"
  /\ tthread' = executor_
  /\ UNCHANGED <<kind, path, casfails, spurious,
                 state_, result_, awaiter_, executor_, fstate,
                 fawaiter, relResult, relAwaiter, writes, resumes, destroys,
                 retpath, dcheck, nullresume>>
  /\ UNCHANGED cvars
  /\ UNCHANGED recorded
  /\ start2

\* ---- the body's completion paths ----------------------------------------

\* return_value without the assignment of result_
return_value_nowrite(v) ==
  /\ pc = "running"
  /\ kind = "T"
  /\ retpath' = retpath \cup {"return"}
  /\ pc' = "body_done"
  /\ UNCHANGED <<kind, path, casfails, spurious, state_, result_, awaiter_,
                 executor_, fstate, fawaiter, relResult, relAwaiter, tthread,
                 writes, resumes, destroys, dcheck, nullresume>>
  /\ UNCHANGED cvars
  /\ recorded' = <<"value", v>>
  /\ complete2(TRUE)

\* PromiseBase<T>::return_value: result_ = Try<T>(value)
return_value(v) ==
  /\ pc = "running"
  /\ kind = "T"
  /\ result_' = ValueTry(v)
  /\ writes' = writes + 1
  /\ retpath' = retpath \cup {"return"}
  /\ pc' = "body_done"
  /\ UNCHANGED <<kind, path, casfails, spurious,
                 state_, awaiter_, executor_, fstate, fawaiter,
                 relResult, relAwaiter, tthread, resumes, destroys, dcheck,
                 nullresume>>
  /\ UNCHANGED cvars
  /\ recorded' = <<"value", v>>
  /\ complete2(TRUE)

\* PromiseBase<void>::return_void: empty body, result_ is not assigned
return_void ==
  /\ pc = "running"
  /\ kind = "void"
  /\ retpath' = retpath \cup {"return"}
  /\ pc' = "body_done"
  /\ UNCHANGED <<kind, path, casfails, spurious,
                 state_, result_, awaiter_, executor_, fstate,
                 fawaiter, relResult, relAwaiter, tthread, writes, resumes,
                 destroys, dcheck, nullresume>>
  /\ UNCHANGED cvars
  /\ recorded' = <<"void", 0>>
  /\ complete2(TRUE)

\* Promise<T>::unhandled_exception: result_ = Try<T>(exception_wrapper)
unhandled_exception(x) ==
  /\ pc = "running"
  /\ result_' = ErrorTry(x)
  /\ writes' = writes + 1
  /\ retpath' = retpath \cup {"error"}
  /\ pc' = "body_done"
  /\ UNCHANGED <<kind, path, casfails, spurious,
                 state_, awaiter_, executor_, fstate, fawaiter,
                 relResult, relAwaiter, tthread, resumes, destroys, dcheck,
                 nullresume>>
  /\ UNCHANGED cvars
  /\ recorded' = <<"error", x>>
  /\ complete2(FALSE)

\* ---- FinalSuspender (finalize) ------------------------------------------

\* await_ready true for every state but EMPTY
FinalReady_any(s) == s # "EMPTY"

\* await_ready's test on the loaded state
FinalReady(s) == s = "DETACHED"

\* the loop without its early return
LoopReturnsFalse_never(s) == FALSE

\* the loop testing the wrong enumerator
LoopReturnsFalse_result(s) == s = "HAS_RESULT"

\* the loop's early return: if (state == State::DETACHED) return false
LoopReturnsFalse(s) == s = "DETACHED"

\* the desired value of the compare_exchange_weak
CasDesired == "HAS_RESULT"

\* never resuming the awaiter
ShouldResume_never(s) == FALSE

\* resuming whenever the frame was not detached
ShouldResume_always(s) == s # "DETACHED"

\* if (state == State::HAS_AWAITER) after the loop
ShouldResume(s) == s = "HAS_AWAITER"

\* success order memory_order_relaxed: nothing is published with the state
ReleaseResult_relaxed(mine, published) == published

\* success order memory_order_release: the result cell as the finalizing
\* thread wrote it is published with the new state
ReleaseResult(mine, published) == mine

\* relaxed loads: a continuation published with HAS_AWAITER does not become
\* visible
AcquireAwaiter_relaxed(s, published, visible) == visible

\* an acquire load (or failed compare-exchange) that reads HAS_AWAITER makes
\* the continuation published with it visible
AcquireAwaiter(s, published, visible) ==
  IF s = "HAS_AWAITER" THEN published ELSE visible

\* second run: FinalSuspender::await_ready
await_ready2 ==
  IF pc2 = "body_done"
    THEN /\ pc2' = IF FinalReady(state2) THEN "done" ELSE "fs_load"
         /\ UNCHANGED <<state2, result2, fstate2, path2, resumes2, diverged>>
    ELSE Diverge2

\* second run: await_suspend's initial load
await_suspend_load2 ==
  IF pc2 = "fs_load"
    THEN /\ fstate2' = state2
         /\ pc2' = "fs_loop"
         /\ UNCHANGED <<state2, result2, path2, resumes2, diverged>>
    ELSE Diverge2

\* second run: the loop body
await_suspend_check2 ==
  IF pc2 = "fs_loop"
    THEN /\ pc2' = IF LoopReturnsFalse(fstate2) THEN "done" ELSE "fs_cas"
         /\ UNCHANGED <<state2, result2, fstate2, path2, resumes2, diverged>>
    ELSE Diverge2

\* second run: the compare-exchange succeeds
await_suspend_cas_ok2 ==
  IF pc2 = "fs_cas" /\ state2 = fstate2
    THEN /\ state2' = CasDesired
         /\ path2' = Append(path2, state2')
         /\ pc2' = "fs_after"
         /\ UNCHANGED <<result2, fstate2, resumes2, diverged>>
    ELSE Diverge2

\* second run: the compare-exchange fails on a changed state_
await_suspend_cas_fail2 ==
  IF pc2 = "fs_cas" /\ state2 # fstate2
    THEN /\ fstate2' = state2
         /\ pc2' = "fs_loop"
         /\ UNCHANGED <<state2, result2, path2, resumes2, diverged>>
    ELSE Diverge2

\* second run: the compare-exchange fails spuriously
await_suspend_cas_spurious2 ==
  IF pc2 = "fs_cas" /\ state2 = fstate2
    THEN /\ pc2' = "fs_loop"
         /\ UNCHANGED <<state2, result2, fstate2, path2, resumes2, diverged>>
    ELSE Diverge2

\* second run: resume the awaiter if the prior state was HAS_AWAITER
await_suspend_finish2 ==
  IF pc2 = "fs_after"
    THEN /\ resumes2' = IF ShouldResume(fstate2) THEN resumes2 + 1
                                                  ELSE resumes2
         /\ pc2' = "final_suspended"
         /\ UNCHANGED <<state2, result2, fstate2, path2, diverged>>
    ELSE Diverge2

\* FinalSuspender::await_ready; when it returns true the coroutine does not
\* suspend, runs off its end and the frame is destroyed
await_ready ==
  /\ pc = "body_done"
  /\ IF FinalReady(state_)
       THEN /\ pc' = "done"
            /\ destroys' = destroys + 1
       ELSE /\ pc' = "fs_load"
            /\ UNCHANGED destroys
  /\ UNCHANGED <<kind, path, casfails, spurious,
                 state_, result_, awaiter_, executor_, fstate,
                 fawaiter, relResult, relAwaiter, tthread, writes, resumes,
                 retpath, dcheck, nullresume>>
  /\ UNCHANGED cvars
  /\ UNCHANGED recorded
  /\ await_ready2

\* await_suspend: auto state = promise_.state_.load(acquire)
await_suspend_load ==
  /\ pc = "fs_load"
  /\ fstate' = state_
  /\ fawaiter' = AcquireAwaiter(state_, relAwaiter, fawaiter)
  /\ pc' = "fs_loop"
  /\ UNCHANGED <<kind, path, casfails, spurious,
                 state_, result_, awaiter_, executor_, relResult,
                 relAwaiter, tthread, writes, resumes, destroys, retpath,
                 dcheck, nullresume>>
  /\ UNCHANGED cvars
  /\ UNCHANGED recorded
  /\ await_suspend_load2

\* the loop body: return false on DETACHED (the frame is not suspended and
\* destroys itself), else DCHECK(state != HAS_RESULT)
await_suspend_check ==
  /\ pc = "fs_loop"
  /\ IF LoopReturnsFalse(fstate)
       THEN /\ pc' = "done"
            /\ destroys' = destroys + 1
            /\ UNCHANGED dcheck
       ELSE /\ pc' = "fs_cas"
            /\ dcheck' = (dcheck \/ fstate = "HAS_RESULT")
            /\ UNCHANGED destroys
  /\ UNCHANGED <<kind, path, casfails, spurious,
                 state_, result_, awaiter_, executor_, fstate,
                 fawaiter, relResult, relAwaiter, tthread, writes, resumes,
                 retpath, nullresume>>
  /\ UNCHANGED cvars
  /\ UNCHANGED recorded
  /\ await_suspend_check2

\* the loop entered again after a successful compare-exchange
await_suspend_cas_ok_again ==
  /\ pc = "fs_cas"
  /\ state_ = fstate
  /\ Len(path) < 4
  /\ state_' = CasDesired
  /\ path' = Append(path, state_')
  /\ relResult' = ReleaseResult(result_, relResult)
  /\ pc' = "fs_load"
  /\ UNCHANGED <<kind, casfails, spurious,
                 result_, awaiter_, executor_, fstate, fawaiter,
                 relAwaiter, tthread, writes, resumes, destroys, retpath,
                 dcheck, nullresume>>
  /\ UNCHANGED cvars
  /\ UNCHANGED recorded
  /\ await_suspend_cas_ok2

\* compare_exchange_weak(state, HAS_RESULT, release, acquire) succeeds
await_suspend_cas_ok ==
  /\ pc = "fs_cas"
  /\ state_ = fstate
  /\ state_' = CasDesired
  /\ path' = Append(path, state_')
  /\ relResult' = ReleaseResult(result_, relResult)
  /\ pc' = "fs_after"
  /\ UNCHANGED <<kind, casfails, spurious,
                 result_, awaiter_, executor_, fstate, fawaiter,
                 relAwaiter, tthread, writes, resumes, destroys, retpath,
                 dcheck, nullresume>>
  /\ UNCHANGED cvars
  /\ UNCHANGED recorded
  /\ await_suspend_cas_ok2

\* compare_exchange_weak fails because state_ differs from the expected
\* value: `state` is reloaded with acquire order
await_suspend_cas_fail ==
  /\ pc = "fs_cas"
  /\ state_ # fstate
  /\ fstate' = state_
  /\ fawaiter' = AcquireAwaiter(state_, relAwaiter, fawaiter)
  /\ casfails' = casfails + 1
  /\ pc' = "fs_loop"
  /\ UNCHANGED <<kind, path, state_, result_, awaiter_, executor_, relResult,
                 relAwaiter, tthread, writes, resumes, destroys, retpath,
                 dcheck, spurious, nullresume>>
  /\ UNCHANGED cvars
  /\ UNCHANGED recorded
  /\ await_suspend_cas_fail2

\* compare_exchange_weak fails spuriously: state_ has the expected value
await_suspend_cas_spurious ==
  /\ pc = "fs_cas"
  /\ state_ = fstate
  /\ spurious < MaxSpurious
  /\ fstate' = state_
  /\ fawaiter' = AcquireAwaiter(state_, relAwaiter, fawaiter)
  /\ spurious' = spurious + 1
  /\ pc' = "fs_loop"
  /\ UNCHANGED <<kind, path, state_, result_, awaiter_, executor_, relResult,
                 relAwaiter, tthread, writes, resumes, destroys, retpath,
                 dcheck, casfails, nullresume>>
  /\ UNCHANGED cvars
  /\ UNCHANGED recorded
  /\ await_suspend_cas_spurious2

\* What resuming C's stored continuation does: attached directly, C runs
\* inline on the resuming thread; wrapped with an executor, the wrapper
\* schedules C on that executor.
ResumeC(onThread) ==
  /\ how' = "resumed"
  /\ cresult' = result_
  /\ IF wrapper.via = NoExecutor
       THEN /\ cpc' = "continuing"
            /\ cthread' = onThread
            /\ UNCHANGED schedules
       ELSE /\ cpc' = "hop"
            /\ schedules' = schedules + 1
            /\ UNCHANGED cthread

\* await_suspend's tail inspecting the result: an awaiter is not resumed
\* when the body ended with an error
await_suspend_finish_inspect ==
  /\ pc = "fs_after"
  /\ IF ShouldResume(fstate) /\ result_[1] # "error"
       THEN /\ resumes' = resumes + 1
            /\ IF fawaiter = ContC
                 THEN /\ ResumeC(tthread)
                      /\ UNCHANGED nullresume
                 ELSE /\ nullresume' = TRUE
                      /\ UNCHANGED <<cpc, cthread, cresult, how, schedules>>
       ELSE UNCHANGED <<resumes, nullresume, cpc, cthread, cresult, how,
                        schedules>>
  /\ pc' = "final_suspended"
  /\ UNCHANGED <<kind, path, casfails, spurious,
                 state_, result_, awaiter_, executor_, fstate,
                 fawaiter, relResult, relAwaiter, tthread, writes, destroys,
                 retpath, dcheck>>
  /\ UNCHANGED <<actor, cexec, wrapper, observed>>
  /\ UNCHANGED recorded
  /\ await_suspend_finish2

\* after the loop: if (state == HAS_AWAITER) awaiter_.resume(); return true
await_suspend_finish ==
  /\ pc = "fs_after"
  /\ IF ShouldResume(fstate)
       THEN /\ resumes' = resumes + 1
            /\ IF fawaiter = ContC
                 THEN /\ ResumeC(tthread)
                      /\ UNCHANGED nullresume
                 ELSE /\ nullresume' = TRUE
                      /\ UNCHANGED <<cpc, cthread, cresult, how, schedules>>
       ELSE UNCHANGED <<resumes, nullresume, cpc, cthread, cresult, how,
                        schedules>>
  /\ pc' = "final_suspended"
  /\ UNCHANGED <<kind, path, casfails, spurious,
                 state_, result_, awaiter_, executor_, fstate,
                 fawaiter, relResult, relAwaiter, tthread, writes, destroys,
                 retpath, dcheck>>
  /\ UNCHANGED <<actor, cexec, wrapper, observed>>
  /\ UNCHANGED recorded
  /\ await_suspend_finish2

\* ---- await dispatch: Promise<U>::await_transform of the awaiting frame ----

\* wrapping a peer task with the executor whatever its executor
PeerVia_always(peerExecutor, e) == e

\* attaching to a peer task directly whatever its executor
PeerVia_direct(peerExecutor, e) == NoExecutor

\* await_transform(Future<U>&) / (Future<U>&&): the executor the
\* AwaitWrapper is created with; none when the peer's executor is this
\* frame's executor
PeerVia(peerExecutor, e) == IF peerExecutor = e THEN NoExecutor ELSE e

\* The awaitable an await_transform overload returns, for the frame whose
\* executor_ is e: how it attaches, the executor it resumes through (via),
\* and the executor a nested task is bound to.
AwaitTransform(k, peerExecutor, e) ==
  CASE k = "task" ->        \* std::move(task).viaInline(executor_)
         [attach |-> "inline", via |-> NoExecutor, bound |-> e]
    [] k = "semifuture" ->  \* FutureAwaitable<U>(future.via(executor_))
         [attach |-> "future", via |-> e, bound |-> NoExecutor]
    [] k = "future" ->      \* future = future.via(executor_); FutureRefAwaitable
         [attach |-> "futureref", via |-> e, bound |-> NoExecutor]
    [] k = "peer" ->        \* AwaitWrapper<Future<U>>::create(future[, executor_])
         [attach |-> "wrapper", via |-> PeerVia(peerExecutor, e),
          bound |-> NoExecutor]
    [] k = "generic" ->     \* AwaitWrapper<U>::create(&awaitable, executor_)
         [attach |-> "wrapper", via |-> e, bound |-> NoExecutor]
    [] k = "query" ->       \* AwaitableReady<Executor*>(executor_)
         [attach |-> "ready", via |-> NoExecutor, bound |-> e]

\* C reaches a co_await: its promise's await_transform builds the awaitable.
\* A peer task's handle exists once the peer was scheduled.  The executor
\* query is ready at once and yields executor_ without suspending.
await_transform ==
  /\ cpc = "idle"
  /\ actor \in AwaitKinds
  /\ actor = "peer" => pc # "initial"
  /\ wrapper' = AwaitTransform(actor, executor_, cexec)
  /\ IF actor = "query"
       THEN /\ cpc' = "continuing"
            /\ how' = "sync"
            /\ observed' = ValueTry(wrapper'.bound)
       ELSE /\ cpc' = "transformed"
            /\ UNCHANGED <<how, observed>>
  /\ UNCHANGED <<actor, cexec, cthread, cresult, schedules>>
  /\ UNCHANGED tvars

\* ---- the external actor on T's handle -----------------------------------

\* storing DETACHED unconditionally
markDetachedNext_store(s) == "DETACHED"

\* the state markDetached() leaves: DETACHED if still EMPTY, else unchanged
markDetachedNext(s) == IF s = "EMPTY" THEN "DETACHED" ELSE s

\* second run: markDetached()
markDetached2 ==
  IF pc2 # "initial" /\ state2 \in {"EMPTY", "HAS_RESULT"}
    THEN /\ state2' = markDetachedNext(state2)
         /\ path2' = IF state2' # state2 THEN Append(path2, state2')
                                         ELSE path2
         /\ UNCHANGED <<result2, pc2, fstate2, resumes2, diverged>>
    ELSE Diverge2

\* markDetached(): EMPTY -> DETACHED if still EMPTY, no-op on HAS_RESULT
markDetached ==
  /\ actor = "detach"
  /\ cpc = "idle"
  /\ pc # "initial"
  /\ state_ \in {"EMPTY", "HAS_RESULT"}
  /\ state_' = markDetachedNext(state_)
  /\ path' = IF state_' # state_ THEN Append(path, state_') ELSE path
  /\ cpc' = "dropped"
  /\ UNCHANGED <<kind, casfails, spurious,
                 result_, awaiter_, executor_, pc, fstate, fawaiter,
                 relResult, relAwaiter, tthread, writes, resumes, destroys,
                 retpath, dcheck, nullresume>>
  /\ UNCHANGED <<actor, cexec, wrapper, cthread, cresult, observed, how,
                 schedules>>
  /\ UNCHANGED recorded
  /\ markDetached2

\* second run: registerAwaiter(continuation)
registerAwaiter2 ==
  IF state2 \in {"EMPTY", "HAS_RESULT"}
    THEN /\ state2' = IF state2 = "EMPTY" THEN "HAS_AWAITER" ELSE state2
         /\ path2' = IF state2' # state2 THEN Append(path2, state2')
                                         ELSE path2
         /\ UNCHANGED <<result2, pc2, fstate2, resumes2, diverged>>
    ELSE Diverge2

\* registerAwaiter(continuation): atomically EMPTY -> HAS_AWAITER storing
\* the continuation (published with the state); on HAS_RESULT it signals
\* "already complete", the acquire load makes the published result visible
\* and C goes on synchronously on its own thread.
registerAwaiter ==
  /\ actor = "peer"
  /\ cpc = "transformed"
  /\ state_ \in {"EMPTY", "HAS_RESULT"}
  /\ IF state_ = "EMPTY"
       THEN /\ state_' = "HAS_AWAITER"
            /\ path' = Append(path, state_')
            /\ awaiter_' = ContC
            /\ relAwaiter' = ContC
            /\ cpc' = "suspended"
            /\ UNCHANGED <<cresult, how>>
       ELSE /\ cpc' = "continuing"
            /\ how' = "sync"
            /\ cresult' = relResult
            /\ UNCHANGED <<state_, awaiter_, relAwaiter, path>>
  /\ UNCHANGED <<kind, casfails, spurious,
                 result_, executor_, pc, fstate, fawaiter, relResult,
                 tthread, writes, resumes, destroys, retpath, dcheck,
                 nullresume>>
  /\ UNCHANGED <<actor, cexec, wrapper, cthread, observed, schedules>>
  /\ UNCHANGED recorded
  /\ registerAwaiter2

\* The executor runs the continuation scheduled on it: C resumes on a
\* worker of that executor.
executorRun ==
  /\ cpc = "hop"
  /\ cpc' = "continuing"
  /\ cthread' = wrapper.via
  /\ UNCHANGED <<actor, cexec, wrapper, cresult, observed, how, schedules>>
  /\ UNCHANGED tvars

\* C retrieves the awaited task's result at its point of resumption.
retrieve ==
  /\ actor = "peer"
  /\ cpc = "continuing"
  /\ observed' = cresult
  /\ cpc' = "retrieved"
  /\ UNCHANGED <<actor, cexec, wrapper, cthread, cresult, how, schedules>>
  /\ UNCHANGED tvars

\* C destroys the frame after retrieving the result.
consumerDestroy ==
  /\ actor = "peer"
  /\ cpc = "retrieved"
  /\ cpc' = "released"
  /\ destroys' = destroys + 1
  /\ UNCHANGED <<kind, path, casfails, spurious,
                 state_, result_, awaiter_, executor_, pc, fstate,
                 fawaiter, relResult, relAwaiter, tthread, writes, resumes,
                 retpath, dcheck, nullresume>>
  /\ UNCHANGED <<actor, cexec, wrapper, cthread, cresult, observed, how,
                 schedules>>
  /\ UNCHANGED <<recorded, twin>>

\* ---- the other awaited kinds --------------------------------------------

\* The awaited operation is already complete when C awaits it: C does not
\* suspend.
externalReady ==
  /\ actor \in AwaitKinds \ {"peer", "query"}
  /\ cpc = "transformed"
  /\ cpc' = "continuing"
  /\ how' = "sync"
  /\ UNCHANGED <<actor, cexec, wrapper, cthread, cresult, observed,
                 schedules>>
  /\ UNCHANGED tvars

\* C suspends on the awaited operation.
externalSuspend ==
  /\ actor \in AwaitKinds \ {"peer", "query"}
  /\ cpc = "transformed"
  /\ cpc' = "waiting"
  /\ UNCHANGED <<actor, cexec, wrapper, cthread, cresult, observed, how,
                 schedules>>
  /\ UNCHANGED tvars

\* The awaited operation completes on a worker of executor t.  A nested
\* task runs on the executor it was bound to and resumes C inline; an
\* awaitable bound to an executor resumes C through that executor.
externalComplete(t) ==
  /\ actor \in AwaitKinds \ {"peer", "query"}
  /\ cpc = "waiting"
  /\ wrapper.attach = "inline" => t = wrapper.bound
  /\ how' = "resumed"
  /\ IF wrapper.via = NoExecutor
       THEN /\ cpc' = "continuing"
            /\ cthread' = t
            /\ UNCHANGED schedules
       ELSE /\ cpc' = "hop"
            /\ schedules' = schedules + 1
            /\ UNCHANGED cthread
  /\ UNCHANGED <<actor, cexec, wrapper, cresult, observed>>
  /\ UNCHANGED tvars

Next ==
  \/ \E e \in Executors : scheduleVia(e)
  \/ start
  \/ \E v \in Values : return_value(v)
  \/ return_void
  \/ \E x \in Errors : unhandled_exception(x)
  \/ await_ready
  \/ await_suspend_load
  \/ await_suspend_check
  \/ await_suspend_cas_ok
  \/ await_suspend_cas_fail
  \/ await_suspend_cas_spurious
  \/ await_suspend_finish
  \/ await_transform
  \/ markDetached
  \/ registerAwaiter
  \/ executorRun
  \/ retrieve
  \/ consumerDestroy
  \/ externalReady
  \/ externalSuspend
  \/ \E t \in Executors : externalComplete(t)

Spec == Init /\ [][Next]_vars

\* The finalizing thread and the executors make progress: each step of the
\* final suspend point is eventually taken, the weak compare-exchange does
\* not fail spuriously forever, a scheduled continuation is eventually run.
\* Nothing forces the body to complete or the external actor to act.
Fairness ==
  /\ WF_vars(await_ready)
  /\ WF_vars(await_suspend_load)
  /\ WF_vars(await_suspend_check)
  /\ WF_vars(await_suspend_cas_fail)
  /\ SF_vars(await_suspend_cas_ok)
  /\ WF_vars(await_suspend_finish)
  /\ WF_vars(executorRun)

FairSpec == Spec /\ Fairness

\* ---- properties ---------------------------------------------------------

\* positions of the frame from body completion to the end of finalize()
FinalizePcs == {"body_done", "fs_load", "fs_loop", "fs_cas", "fs_after"}
\* positions before the body has completed
BodyPcs == {"initial", "scheduled", "running"}
\* positions of C after it got past the await
PastAwait == {"hop", "continuing", "retrieved", "released"}

PathDetached == <<"EMPTY", "DETACHED">>
PathAwaited == <<"EMPTY", "HAS_AWAITER", "HAS_RESULT">>
PathUnobserved == <<"EMPTY", "HAS_RESULT">>

C1Safe ==
  /\ resumes <= 1
  /\ ~nullresume
  /\ actor # "peer" => resumes = 0
  /\ actor = "peer" =>
       /\ (how = "sync" => resumes = 0 /\ path = PathUnobserved)
       /\ (how = "resumed" <=> resumes = 1)
       /\ (resumes = 1 => path = PathAwaited)
       /\ (cpc \in PastAwait <=> how # "none")
       /\ ~(pc = "final_suspended" /\ cpc = "suspended")

C1Once == [][how # "none" => how' = how]_vars

C1Live ==
  (actor = "peer" /\ cpc = "suspended" /\ pc \in FinalizePcs)
     ~> (how = "resumed")

\* C1: for every interleaving of finalize() with registerAwaiter, C gets
\* past its await exactly once: resumed by finalize() (prior state
\* HAS_AWAITER) or told "already complete"; never resumed twice, and not
\* left suspended once the body has finished.
C1_SingleResumption == []C1Safe /\ C1Once /\ C1Live

C1_Witness ==
  /\ actor = "peer"
  /\ how = "resumed"
  /\ resumes = 1
  /\ casfails = 1
  /\ pc = "final_suspended"

LegalEdges == {<<"EMPTY", "DETACHED">>, <<"EMPTY", "HAS_AWAITER">>,
               <<"HAS_AWAITER", "HAS_RESULT">>, <<"EMPTY", "HAS_RESULT">>}

\* C2: every change of state_ made by markDetached, registerAwaiter or
\* finalize() is one of EMPTY->DETACHED, EMPTY->HAS_AWAITER,
\* HAS_AWAITER->HAS_RESULT, EMPTY->HAS_RESULT.
C2_LegalEdges == [][state_' # state_ => <<state_, state_'>> \in LegalEdges]_vars

C2_Witness ==
  /\ path = PathAwaited
  /\ state_ = "HAS_RESULT"
  /\ spurious = 1

\* C3: whichever of registerAwaiter / markDetached races with finalize(),
\* the state takes one of the three legal paths, and the produced result is
\* delivered to the single awaiter exactly once, unchanged, or is discarded
\* because the handle was dropped.
C3_RaceResolution ==
  /\ path \in {<<"EMPTY">>, <<"EMPTY", "HAS_AWAITER">>, PathDetached,
               PathAwaited, PathUnobserved}
  /\ (pc \in {"done", "final_suspended"} /\ cpc \in PastAwait \cup {"dropped"}
        /\ actor \in {"peer", "detach"})
       => path \in {PathDetached, PathAwaited, PathUnobserved}
  /\ state_ = "DETACHED" => actor = "detach" /\ cpc = "dropped"
  /\ actor = "detach" =>
       /\ observed = EmptyTry
       /\ resumes = 0
       /\ how = "none"
  /\ actor = "peer" =>
       /\ (how # "none" => state_ = "HAS_RESULT" /\ cresult = result_)
       /\ (cpc \in {"retrieved", "released"} =>
             /\ observed = result_
             /\ resumes + (IF how = "sync" THEN 1 ELSE 0) = 1)
       /\ (pc = "final_suspended" /\ cpc \notin {"idle", "transformed"}
             => cpc \in PastAwait)

C3_Witness ==
  /\ actor = "peer"
  /\ cpc = "retrieved"
  /\ how = "sync"
  /\ casfails = 0
  /\ pc = "fs_after"
  /\ observed = result_

C4Inv ==
  state_ = "DETACHED" =>
    /\ pc \notin {"fs_after", "final_suspended"}
    /\ resumes = 0
    /\ how = "none"
    /\ destroys <= 1
    /\ (pc = "done" <=> destroys = 1)

C4Stays == [][state_ = "DETACHED" => state_' = "DETACHED"]_vars

C4Live ==
  (state_ = "DETACHED" /\ pc \in FinalizePcs)
     ~> (pc = "done" /\ state_ = "DETACHED")

\* C4: when state_ is DETACHED as finalize() runs (the detach landed before
\* await_ready, or between await_ready and the compare-exchange),
\* finalize() does not suspend the frame, state_ stays DETACHED, nothing is
\* resumed and the frame destroys itself.
C4_DetachedFinalize == []C4Inv /\ C4Stays /\ C4Live

C4_Witness ==
  /\ state_ = "DETACHED"
  /\ pc = "done"
  /\ casfails = 1
  /\ destroys = 1

C5Inv ==
  (actor = "detach" /\ state_ = "DETACHED") =>
    /\ resumes = 0
    /\ schedules = 0
    /\ ~dcheck
    /\ ~nullresume
    /\ destroys <= 1

C5Once == [][destroys' = destroys \/ (destroys = 0 /\ destroys' = 1)]_vars

C5Live ==
  (actor = "detach" /\ state_ = "DETACHED" /\ pc \in FinalizePcs)
     ~> [](destroys = 1 /\ pc = "done")

\* C5: a task that is never awaited, whose handle is dropped and whose body
\* completes later, resumes nothing, reaches no error state, and its frame
\* is eventually freed, exactly once.
C5_DroppedTaskFreed == []C5Inv /\ C5Once /\ C5Live

C5_Witness ==
  /\ actor = "detach"
  /\ path = PathDetached
  /\ pc = "done"
  /\ destroys = 1
  /\ casfails = 0
  /\ result_[1] = "error"

\* C6: markDetached() stores DETACHED only over EMPTY; on HAS_RESULT it
\* leaves the state, the result cell (value or error) and the continuation
\* as they are, resumes nothing and raises nothing.
C6_MarkDetached ==
  [][(cpc = "idle" /\ cpc' = "dropped") =>
       /\ state_ = "EMPTY" => state_' = "DETACHED"
       /\ state_' = "DETACHED" => state_ = "EMPTY"
       /\ state_ = "HAS_RESULT" =>
            /\ state_' = state_
            /\ result_' = result_
            /\ relResult' = relResult
            /\ awaiter_' = awaiter_
            /\ resumes' = resumes
            /\ how' = how
            /\ dcheck' = dcheck
            /\ nullresume' = nullresume]_vars

C6_Witness ==
  /\ actor = "detach"
  /\ cpc = "dropped"
  /\ state_ = "HAS_RESULT"
  /\ result_[1] = "error"

\* C7: when the task is already HAS_RESULT at registerAwaiter, the state
\* stays HAS_RESULT, no continuation is stored, finalize() resumes nothing,
\* no executor is asked to schedule, and C goes on synchronously on its own
\* thread with the result.
C7_FastPath ==
  (actor = "peer" /\ how = "sync") =>
    /\ state_ = "HAS_RESULT"
    /\ path = PathUnobserved
    /\ awaiter_ = NullHandle
    /\ resumes = 0
    /\ schedules = 0
    /\ cthread = cexec
    /\ cpc \in {"continuing", "retrieved", "released"}
    /\ cresult = result_

C7_Witness ==
  /\ actor = "peer"
  /\ how = "sync"
  /\ cpc = "continuing"
  /\ pc = "final_suspended"
  /\ resumes = 0

\* C8: whenever state_ is HAS_RESULT the result cell holds its final value
\* or error and was published with the state; what C reads, after being
\* resumed or on the fast path, is that final result, never an empty cell.
C8_ResultVisible ==
  /\ state_ = "HAS_RESULT" =>
       /\ result_[1] \in {"value", "error"}
       /\ relResult = result_
  /\ (actor = "peer" /\ how # "none") => cresult = result_
  /\ (actor = "peer" /\ cpc \in {"retrieved", "released"}) =>
       /\ observed = result_
       /\ observed[1] # "empty"

C8_Witness ==
  /\ actor = "peer"
  /\ how = "sync"
  /\ cpc = "retrieved"
  /\ kind = "T"
  /\ observed[1] = "value"
  /\ pc = "fs_after"

\* C9: after awaiting any supported kind, C runs on a worker of its own
\* bound executor, also when the awaited operation completed on a worker
\* of another executor; the executor query yields that executor.
C9_ExecutorAffinity ==
  /\ cpc \in {"continuing", "retrieved", "released"} => cthread = cexec
  /\ (actor = "query" /\ cpc = "continuing") => observed = ValueTry(cexec)

C9_Witness ==
  /\ actor = "peer"
  /\ executor_ # cexec
  /\ tthread # cexec
  /\ how = "resumed"
  /\ schedules = 1
  /\ cpc = "continuing"

C10Inv ==
  /\ writes <= 1
  /\ Cardinality(retpath) <= 1
  /\ pc \in BodyPcs => writes = 0 /\ retpath = {}
  /\ pc \notin BodyPcs =>
       /\ Cardinality(retpath) = 1
       /\ writes = IF kind = "void" /\ retpath = {"return"} THEN 0 ELSE 1
  /\ state_ = "HAS_RESULT" => pc \in {"fs_after", "final_suspended"}

C10Step ==
  [][(writes' # writes \/ result_' # result_) =>
       /\ writes' = writes + 1
       /\ pc = "running"
       /\ pc' = "body_done"
       /\ state_ # "HAS_RESULT"]_vars

C11_ErrorTransparency ==
  /\ ~diverged
  /\ pc2 = pc
  /\ state2 = state_
  /\ fstate2 = fstate
  /\ path2 = path
  /\ resumes2 = resumes
  /\ pc \notin BodyPcs => (result2[1] = "error") # (result_[1] = "error")

C11_Witness ==
  /\ pc = "final_suspended"
  /\ recorded[1] = "error"
  /\ result2[1] = "value"
  /\ path2 = PathAwaited
  /\ resumes = 1
  /\ resumes2 = 1

\* C12: when the body of an awaited task ended with a captured error, the
\* result cell holds exactly that error from body completion on, and C has
\* that same error at its point of resumption, whether resumed by
\* finalize() or on the already-complete fast path; never a value, an empty
\* cell or another error.
C12_ErrorResurfaced ==
  recorded[1] = "error" =>
    /\ pc \notin BodyPcs
    /\ result_ = <<"error", recorded[2]>>
    /\ actor = "peer" =>
         /\ how # "none" => cresult = <<"error", recorded[2]>>
         /\ cpc \in {"retrieved", "released"} =>
              observed = <<"error", recorded[2]>>

C12_Witness ==
  /\ actor = "peer"
  /\ recorded = <<"error", 2>>
  /\ how = "resumed"
  /\ cpc = "retrieved"
  /\ observed = <<"error", 2>>

\* ---- a body that breaks the record-once protocol --------------------------

\* The only fatal check of Promise.h: DCHECK(state != State::HAS_RESULT).
Fatal == dcheck

\* A body that records a second time: after co_return has called
\* return_value / return_void, an exception escapes while the body's scope
\* is left (a local's destructor throws), so unhandled_exception runs on
\* the same frame and assigns result_ again.
unhandled_exception_after_return(x) ==
  /\ pc = "body_done"
  /\ retpath = {"return"}
  /\ result_' = ErrorTry(x)
  /\ writes' = writes + 1
  /\ retpath' = retpath \cup {"error"}
  /\ UNCHANGED <<kind, path, casfails, spurious, pc,
                 state_, awaiter_, executor_, fstate, fawaiter,
                 relResult, relAwaiter, tthread, resumes, destroys, dcheck,
                 nullresume, recorded, twin>>
  /\ UNCHANGED cvars

NextMisuse ==
  \/ Next
  \/ \E x \in Errors : unhandled_exception_after_return(x)

MisuseSpec == Init /\ [][NextMisuse]_vars

\* C13: recording a result a second time on the same frame is fatal and
\* does not overwrite the first result.
C13_SecondRecordFatal ==
  [][(retpath # {} /\ retpath' # retpath) =>
       (Fatal' /\ result_' = result_)]_vars

\* the awaitable a peer-task await is dispatched to: attached directly when
\* the peer's executor is C's, wrapped with C's executor otherwise
C14Dispatch ==
  (actor = "peer" /\ cpc # "idle") =>
    /\ wrapper.attach = "wrapper"
    /\ wrapper.via = IF executor_ = cexec THEN NoExecutor ELSE cexec

\* C14 as stated: awaiting a peer task on the same executor makes no
\* executor hop, on a different executor exactly one, never zero.
C14_ExactlyOneHop ==
  /\ C14Dispatch
  /\ (actor = "peer" /\ cpc \in {"continuing", "retrieved", "released"}) =>
       schedules = IF executor_ = cexec THEN 0 ELSE 1

\* C14 (amended): the dispatch compares the executors; same executor: no
\* hop; different executors: exactly one schedule call, on C's executor and
\* after the value is ready, when C was suspended and resumed by
\* finalize(), and none when the peer was already complete at registration.
C14_OneHopWhenResumed ==
  /\ C14Dispatch
  /\ schedules <= 1
  /\ (actor = "peer" /\ cpc \in PastAwait) =>
       schedules = IF executor_ # cexec /\ how = "resumed" THEN 1 ELSE 0
  /\ (actor = "peer" /\ cpc = "hop") =>
       /\ state_ = "HAS_RESULT"
       /\ wrapper.via = cexec

C14_Witness ==
  /\ actor = "peer"
  /\ executor_ # cexec
  /\ cpc = "hop"
  /\ schedules = 1
  /\ state_ = "HAS_RESULT"

\* C15: finalize() resumes only after its compare-exchange has stored
\* HAS_RESULT over HAS_AWAITER, and resumes the stored continuation inline:
\* attached directly, C runs at once on the finalizing thread and no
\* executor is asked to schedule; the only schedule call is the one the
\* await adapter makes, onto C's executor.  A prior state HAS_AWAITER always
\* leads to the resumption.
C15_InlineResume ==
  [][/\ resumes' # resumes =>
          /\ resumes' = resumes + 1
          /\ pc = "fs_after"
          /\ pc' = "final_suspended"
          /\ fstate = "HAS_AWAITER"
          /\ state_ = "HAS_RESULT"
          /\ state_' = "HAS_RESULT"
          /\ path = PathAwaited
          /\ how' = "resumed"
          /\ wrapper.via = NoExecutor =>
               /\ cpc' = "continuing"
               /\ cthread' = tthread
               /\ schedules' = schedules
          /\ wrapper.via # NoExecutor =>
               /\ cpc' = "hop"
               /\ wrapper.via = cexec
               /\ wrapper.via # executor_
     /\ (pc = "fs_after" /\ pc' # pc /\ fstate = "HAS_AWAITER") =>
          resumes' = resumes + 1]_vars

C15_Witness ==
  /\ actor = "peer"
  /\ resumes = 1
  /\ wrapper.via = NoExecutor
  /\ cpc = "continuing"
  /\ cthread = tthread
  /\ schedules = 0
  /\ pc = "final_suspended"

C16Inv ==
  /\ casfails <= 1
  /\ casfails = 1 => (Len(path) >= 2 /\ path[2] \in {"DETACHED", "HAS_AWAITER"})
  /\ pc = "done" => (state_ = "DETACHED" /\ path = PathDetached)
  /\ pc = "final_suspended" =>
       (state_ = "HAS_RESULT" /\ path \in {PathAwaited, PathUnobserved})

C16Live == (pc \in FinalizePcs) ~> (pc \in {"done", "final_suspended"})

\* C16: finalize() terminates.  With one external actor making at most one
\* transition, the compare-exchange fails on a changed state_ at most once,
\* and when spurious failures do not repeat forever finalize() ends, either
\* by returning on DETACHED or by a successful compare-exchange to
\* HAS_RESULT.
C16_FinalizeTerminates == []C16Inv /\ C16Live

C16_Witness ==
  /\ casfails = 1
  /\ spurious >= 1
  /\ pc = "final_suspended"
  /\ path = PathAwaited

C17Inv ==
  /\ path[1] = "EMPTY"
  /\ pc = "initial" =>
       /\ state_ = "EMPTY"
       /\ executor_ = NoExecutor
  /\ pc \in {"initial", "scheduled"} =>
       /\ tthread = NoExecutor
       /\ writes = 0
       /\ retpath = {}
       /\ result_ = InitResult(kind)
       /\ state_ \in {"EMPTY", "DETACHED", "HAS_AWAITER"}
  /\ pc # "initial" => executor_ \in Executors
  /\ pc \notin {"initial", "scheduled"} => tthread = executor_
  /\ (actor = "peer" /\ cpc # "idle") => executor_ \in Executors

C17Bound == [][pc # "initial" => executor_' = executor_]_vars

\* C17: a frame starts EMPTY and suspended at its initial suspend point; no
\* step of the body runs before start(), the executor is bound before the
\* first body step and not rebound afterwards, so the body, every await
\* dispatch on the frame and finalize() see the bound executor and a state
\* history that began at EMPTY.
C17_SuspendedUntilStarted == []C17Inv /\ C17Bound

C17_Witness ==
  /\ pc = "scheduled"
  /\ executor_ \in Executors
  /\ state_ = "HAS_AWAITER"
  /\ writes = 0

\* C18: DCHECK(state != HAS_RESULT) never fails: finalize() runs once per
\* frame and is the only writer of HAS_RESULT, so neither its initial load
\* nor the value a failed compare-exchange returns is HAS_RESULT.
C18_DcheckHolds ==
  /\ ~dcheck
  /\ pc \in {"fs_loop", "fs_cas"} => fstate # "HAS_RESULT"
  /\ pc \in BodyPcs \cup {"body_done", "fs_load", "fs_loop", "fs_cas"} =>
       state_ # "HAS_RESULT"

C18_Witness ==
  /\ pc = "fs_loop"
  /\ casfails = 1
  /\ fstate = "HAS_AWAITER"
  /\ ~dcheck

\* C19: whenever finalize() has read HAS_AWAITER, by its initial load or by
\* a failed compare-exchange, the continuation registerAwaiter stored is
\* visible to it and is C's continuation: the store precedes the
\* publication of HAS_AWAITER; finalize() never resumes a null or stale
\* handle.
C19_AwaiterVisible ==
  /\ ~nullresume
  /\ state_ = "HAS_AWAITER" => (awaiter_ = ContC /\ relAwaiter = ContC)
  /\ (pc \in {"fs_loop", "fs_cas", "fs_after"} /\ fstate = "HAS_AWAITER") =>
       (fawaiter = ContC /\ awaiter_ = ContC)
  /\ resumes = 1 => (fawaiter = ContC /\ how = "resumed")
  /\ awaiter_ = ContC => "HAS_AWAITER" \in {path[i] : i \in 1..Len(path)}

C19_Witness ==
  /\ pc = "fs_after"
  /\ fstate = "HAS_AWAITER"
  /\ fawaiter = ContC
  /\ casfails = 1
  /\ resumes = 0

C20Inv ==
  /\ pc = "done" => (state_ = "DETACHED" /\ actor = "detach")
  /\ state_ = "HAS_RESULT" => pc \in {"fs_after", "final_suspended"}
  /\ actor = "detach" => (destroys = 1 <=> pc = "done")
  /\ actor = "peer" =>
       /\ pc # "done"
       /\ cpc \in {"suspended", "hop", "continuing", "retrieved"} =>
            destroys = 0
       /\ destroys = 1 <=> cpc = "released"

C20Step ==
  [][destroys' # destroys =>
       \/ (pc' = "done" /\ state_ = "DETACHED" /\ awaiter_ = NullHandle)
       \/ (actor = "peer" /\ cpc = "retrieved" /\ pc' = pc)]_vars

\* C20: finalize() lets the frame destroy itself (await_ready true,
\* await_suspend false) only with state_ DETACHED; once it has stored
\* HAS_RESULT the frame stays suspended and alive.  The completion path
\* never destroys a frame whose consumer has registered a continuation or
\* has yet to read the result: such a frame is destroyed by the consumer
\* only, after the retrieval.
C20_SelfDestroyOnlyDetached == []C20Inv /\ C20Step

C20_Witness ==
  /\ actor = "peer"
  /\ cpc = "retrieved"
  /\ how = "resumed"
  /\ pc = "final_suspended"
  /\ destroys = 0
====
